---- MODULE Spec2Model ----
(***************************************************************************)
(* PowerPoint-to-PDF converter: the Express server of server/src/server.ts *)
(* (multer upload, Google Drive create / export / delete, res.download,    *)
(* cleanupFiles) as a state machine over concurrent requests, and the      *)
(* filename derivation shared by the server and the Angular client.        *)
(*                                                                         *)
(* Strings whose content matters (file names, paths) are sequences of      *)
(* one-character strings.  Node runs every callback to completion, so one  *)
(* action is the code between two awaits of one request.                   *)
(***************************************************************************)
EXTENDS Integers, Sequences, FiniteSets, TLC

(***************************************************************************)
(* Bounds of the model.                                                    *)
(***************************************************************************)
\* Longest file-name tail (after the stem) that NameSpec enumerates.
MaxTailLen == 5

(***************************************************************************)
(* String helpers (JavaScript String.prototype and RegExp semantics).      *)
(***************************************************************************)
\* The /i flag: canonical case of one character.
ToLowerCase(c) ==
    CASE c = "P" -> "p"
      [] c = "T" -> "t"
      [] c = "X" -> "x"
      [] c = "S" -> "s"
      [] OTHER -> c

LowerStr(s) == [i \in 1..Len(s) |-> ToLowerCase(s[i])]

\* String.prototype.endsWith: case-sensitive suffix test.
EndsWith(s, suf) ==
    /\ Len(suf) <= Len(s)
    /\ SubSeq(s, Len(s) - Len(suf) + 1, Len(s)) = suf

DotPpt == <<".", "p", "p", "t">>
DotPptx == <<".", "p", "p", "t", "x">>
DotPdf == <<".", "p", "d", "f">>

\* One character of the pattern against one of the subject, under /i.
CharEqNoCase(a, b) == ToLowerCase(a) = ToLowerCase(b)

\* The same without the /i flag.
CharEqCase(a, b) == a = b

\* The flag of the regular expression literal /\.(ppt|pptx)$/i .
RegexCharEq(a, b) == CharEqNoCase(a, b)

\* Whether literal `lit` matches s at position i (1-based).
LitAt(s, i, lit) ==
    /\ i + Len(lit) - 1 <= Len(s)
    /\ \A k \in 1..Len(lit) : RegexCharEq(lit[k], s[i + k - 1])

\* Length of the match of \.(ppt|pptx)$ starting at position i, 0 if none:
\* the alternation tries ppt first and backtracks to pptx when $ fails.
ExtMatchLen(s, i) ==
    IF LitAt(s, i, DotPpt) /\ i + Len(DotPpt) - 1 = Len(s) THEN Len(DotPpt)
    ELSE IF LitAt(s, i, DotPptx) /\ i + Len(DotPptx) - 1 = Len(s) THEN Len(DotPptx)
    ELSE 0

\* Leftmost position at which the pattern matches, 0 if nowhere.
RECURSIVE FirstMatch(_, _)
FirstMatch(s, i) ==
    IF i > Len(s) THEN 0
    ELSE IF ExtMatchLen(s, i) > 0 THEN i
    ELSE FirstMatch(s, i + 1)

\* name.replace(/\.(ppt|pptx)$/i, '.pdf'): the first match is replaced, a
\* string without a match is returned unchanged.
ReplaceExt(s) ==
    LET i == FirstMatch(s, 1) IN
    IF i = 0 THEN s
    ELSE SubSeq(s, 1, i - 1) \o DotPdf \o SubSeq(s, i + ExtMatchLen(s, i), Len(s))

\* server.ts: const outputFileName = req.file.originalname.replace(...)
outputFileName(originalname) == ReplaceExt(originalname)

\* conversion.service.ts downloadPdf: link.download = fileName.replace(...)
downloadName(fileName) == ReplaceExt(fileName)


\* Number.prototype.toString of a non-negative integer, digit by digit.
Digit(d) ==
    CASE d = 0 -> "0" [] d = 1 -> "1" [] d = 2 -> "2" [] d = 3 -> "3"
      [] d = 4 -> "4" [] d = 5 -> "5" [] d = 6 -> "6" [] d = 7 -> "7"
      [] d = 8 -> "8" [] OTHER -> "9"

RECURSIVE NumToStr(_)
NumToStr(n) ==
    IF n < 10 THEN <<Digit(n)>>
    ELSE NumToStr(n \div 10) \o <<Digit(n % 10)>>

\* path.join(dir, name) for a plain file name: dir, a separator, name.
join(dir, name) == <<dir, "/">> \o name

(***************************************************************************)
(* Upload Receiver: multer configuration (server.ts 53-79).                *)
(***************************************************************************)
PPT_MIME == "application/vnd.ms-powerpoint"
PPTX_MIME == "application/vnd.openxmlformats-officedocument.presentationml.presentation"

\* limits.fileSize
fileSize == 50 * 1024 * 1024

\* storage.filename: Date.now() + '-' + file.originalname
storageFilename(t, originalname) == NumToStr(t) \o <<"-">> \o originalname

\* storage.destination and multer's join of destination and filename.
storagePath(t, originalname) == join("uploads", storageFilename(t, originalname))

\* A filter that looks at the extension only.
ExtensionOnlyFilter(f) ==
    \/ EndsWith(f.originalname, DotPpt)
    \/ EndsWith(f.originalname, DotPptx)

\* upload.fileFilter: the allow-list (MIME type or case-sensitive extension).
fileFilter(f) ==
    \/ f.mimetype = PPT_MIME
    \/ f.mimetype = PPTX_MIME
    \/ EndsWith(f.originalname, DotPpt)
    \/ EndsWith(f.originalname, DotPptx)

\* multer configured without limits.fileSize.
NoSizeLimit(size) == FALSE

\* multer (busboy) raises LIMIT_FILE_SIZE once more than fileSize bytes came.
ExceedsLimit(size) == size > fileSize

(***************************************************************************)
(* The requests the model sends.                                           *)
(***************************************************************************)
deck_pptx == <<"d", "e", "c", "k", ".", "p", "p", "t", "x">>
deck_ppt == <<"d", "e", "c", "k", ".", "p", "p", "t">>
Slides_PPT == <<"S", "l", "i", "d", "e", "s", ".", "P", "P", "T">>
notes_txt == <<"n", "o", "t", "e", "s", ".", "t", "x", "t">>

File(name, mime, size) ==
    [present |-> TRUE, originalname |-> name, mimetype |-> mime, size |-> size]

\* A multipart request without a file field: req.file is undefined.
NoFile == [present |-> FALSE, originalname |-> <<>>, mimetype |-> "", size |-> 0]

Uploads ==
    { File(deck_pptx, PPTX_MIME, 1),
      File(deck_ppt, PPT_MIME, fileSize),
      File(Slides_PPT, PPT_MIME, 1),
      File(Slides_PPT, "application/octet-stream", 1),
      File(notes_txt, "text/plain", 1),
      File(notes_txt, PPT_MIME, 1),
      File(deck_pptx, PPTX_MIME, fileSize + 1),
      NoFile }

\* Two requests to POST /api/convert, in flight together or one after the
\* other: the concurrency the server's handler is exposed to, pairwise.
Requests == {1, 2}

(***************************************************************************)
(* Client-side validation (file-upload.service.ts, conversion.service.ts). *)
(***************************************************************************)
\* FileUploadService.maxFileSize
maxFileSize == 10 * 1024 * 1024

\* FileUploadService.validateFileType
validateFileType(f) ==
    \/ f.mimetype \in {PPT_MIME, PPTX_MIME}
    \/ EndsWith(f.originalname, DotPpt)
    \/ EndsWith(f.originalname, DotPptx)

\* FileUploadService.validateFileSize
validateFileSize(f) == f.size <= maxFileSize

\* ConversionService.isValidPowerPointFile
isValidPowerPointFile(f) ==
    \/ f.mimetype \in {PPT_MIME, PPTX_MIME}
    \/ \E ext \in {DotPpt, DotPptx} : EndsWith(LowerStr(f.originalname), ext)

\* ConversionService.convertToPdf: the checks before the POST.
PrePostChecks(f) == isValidPowerPointFile(f) /\ ~(f.size > 50 * 1024 * 1024)

(***************************************************************************)
(* Responses and error texts (server.ts 96, 130, 137, 174, 180-183).       *)
(***************************************************************************)
NoResponse ==
    [status |-> 0, kind |-> "none", error |-> "", details |-> <<>>,
     filename |-> <<>>, content |-> 0]

\* The missing file answered with the status of a processing failure.
NoFileAnswered500 ==
    [NoResponse EXCEPT !.status = 500, !.kind = "json",
                       !.error = "No file uploaded"]

\* res.status(400).json({ error: 'No file uploaded' })
NoFileResponse == [NoResponse EXCEPT !.status = 400, !.kind = "json",
                                     !.error = "No file uploaded"]

\* An error passed to next() by the multer middleware reaches Express's
\* default error handler, the app installing none: an Error without a
\* status property is answered 500 with an HTML body.
DefaultErrorResponse(message) ==
    [NoResponse EXCEPT !.status = 500, !.kind = "html", !.error = message]

\* res.status(500).json({ error: ..., details: error.message })
ErrorResponse(details) ==
    [NoResponse EXCEPT !.status = 500, !.kind = "json",
                       !.error = "Error converting file to PDF",
                       !.details = details]

\* res.download(outputPath, outputFileName): 200, Content-Disposition
\* attachment named outputFileName, body read from outputPath.
FileResponse(name, owner) ==
    [NoResponse EXCEPT !.status = 200, !.kind = "file",
                       !.filename = name, !.content = owner]

\* e instanceof Error ? e.message : 'Unknown error'
ErrText(e) == IF e.isError THEN e.message ELSE "Unknown error"

\* Values the remote calls and fs calls reject with.
Thrown == { [isError |-> TRUE, message |-> "ECONNRESET"] }

\* `Failed to upload to Google Drive: ${...}`
UploadErrorMessage(e) == <<"Failed to upload to Google Drive", ": ", ErrText(e)>>

\* The export error rethrown as it came, without the step's prefix.
UnprefixedMessage(e) == <<ErrText(e)>>

\* `Failed to convert to PDF: ${...}`
ConversionErrorMessage(e) == <<"Failed to convert to PDF", ": ", ErrText(e)>>

\* new Error('Failed to upload file to Google Drive'): create returned no id.
NoIdError == [isError |-> TRUE, message |-> "Failed to upload file to Google Drive"]

(***************************************************************************)
(* State.                                                                  *)
(*   req[r]       the request's handler: its position (pc), the uploaded   *)
(*                file descriptor, the three locals of the handler         *)
(*                (uploadedFileId, tempFilePath, outputPath; 0 and <<>>    *)
(*                are null), the error on its way to the outer catch, the  *)
(*                response, and a record of what the request did (calls:   *)
(*                the remote calls issued; steps: every call issued,       *)
(*                returned or thrown, the wait and the response, in order) *)
(*   fs           the uploads directory: path -> request whose bytes the   *)
(*                file holds                                               *)
(*   drive        ids of the files that exist in the remote account        *)
(*   nextId       the id the next successful drive.files.create returns    *)
(*   deleteCalls  per remote id, the drive.files.delete calls issued       *)
(*   now          the last value Date.now() returned                       *)
(*   interfered   local files of one request overwritten, streamed back or *)
(*                deleted by another: <<how, by, victim>>                  *)
(***************************************************************************)
VARIABLES req, fs, drive, nextId, deleteCalls, now, interfered

serverVars == <<req, fs, drive, nextId, deleteCalls, now, interfered>>

(***************************************************************************)
(* State of the file-name derivation, followed for one file from the file  *)
(* picker to the browser download:                                          *)
(*   picked      the file (name, MIME type, size)                          *)
(*   stage       how far it got: "off" (no file followed), "pick",         *)
(*               "selected", "posted", "served", "downloaded", "refused"   *)
(*   serverName  the name given to res.download (Content-Disposition)      *)
(*   clientName  link.download                                             *)
(***************************************************************************)
VARIABLES picked, stage, serverName, clientName

nameVars == <<picked, stage, serverName, clientName>>

(***************************************************************************)
(* State of the Client Form (ConverterComponent) in one browser tab:       *)
(*   form        the component's fields (16-21); selectedFile null is      *)
(*               NoFile, the empty string is <<>> for errorMessage         *)
(*   intervals   the progress timers set by setInterval and not cleared    *)
(*   posts       the POST requests in flight, each the file it carries     *)
(*   timeouts    the pending finalizing timeouts, each the file whose PDF  *)
(*               its closure holds (pdfBlob)                               *)
(*   handler     the last call of handleError: its local errorMessage,     *)
(*               the error body given to the FileReader and whether the    *)
(*               reader's load event is still to come                      *)
(*   downloaded  what the last finalizing timeout did: the link.download   *)
(*               name and the file the blob came from, or the TypeError    *)
(*   lastEvent   the last thing that happened in the tab                   *)
(***************************************************************************)
VARIABLES form, intervals, posts, timeouts, handler, downloaded, lastEvent

clientVars == <<form, intervals, posts, timeouts, handler, downloaded, lastEvent>>

(***************************************************************************)
(* State of the server process from its start to app.listen:               *)
(*   env    process.env after dotenv.config(), for the required variables  *)
(*   proc   "starting", "exited" (process.exit(1)) or "listening"          *)
(***************************************************************************)
VARIABLES env, proc

bootVars == <<env, proc>>

vars == <<req, fs, drive, nextId, deleteCalls, now, interfered,
          picked, stage, serverName, clientName,
          form, intervals, posts, timeouts, handler, downloaded, lastEvent,
          env, proc>>

InitialRequest ==
    [pc |-> "idle", file |-> NoFile, rejected |-> "no",
     uploadedFileId |-> 0, tempFilePath |-> <<>>, outputPath |-> <<>>,
     outputFileName |-> <<>>, failed |-> "none", thrown |-> <<>>,
     mode |-> "none", downloadErr |-> "none", cleanupError |-> FALSE,
     response |-> NoResponse, sent |-> 0, calls |-> <<>>, attempted |-> {},
     steps |-> <<>>]

NoNames ==
    /\ picked = NoFile
    /\ stage = "off"
    /\ serverName = <<>>
    /\ clientName = <<>>

ServerInit ==
    /\ req = [r \in Requests |-> InitialRequest]
    /\ fs = << >>
    /\ drive = {}
    /\ nextId = 1
    /\ deleteCalls = [i \in Requests |-> 0]
    /\ now = 1
    /\ interfered = {}

\* The Client Form as constructed (part_000 16-21), nothing in flight.
InitialForm ==
    [isLoading |-> FALSE, errorMessage |-> <<>>, successMessage |-> "",
     selectedFile |-> NoFile, conversionStatus |-> "", uploadProgress |-> 0]

NoHandler == [errorMessage |-> <<>>, body |-> NoResponse, reading |-> FALSE]

NoDownload == [by |-> "none", name |-> <<>>, of |-> NoFile]

NoEvent == [op |-> "none", file |-> NoFile, reply |-> NoResponse]

ClientInit ==
    /\ form = InitialForm
    /\ intervals = 0
    /\ posts = <<>>
    /\ timeouts = <<>>
    /\ handler = NoHandler
    /\ downloaded = NoDownload
    /\ lastEvent = NoEvent

(***************************************************************************)
(* Start of the server process (server.ts 13-28, 212-215).                 *)
(***************************************************************************)
requiredEnvVars ==
    {"GOOGLE_CLIENT_ID", "GOOGLE_CLIENT_SECRET", "GOOGLE_REDIRECT_URI",
     "GOOGLE_REFRESH_TOKEN"}

\* A variable is not defined, is defined as the empty string, or has a value.
EnvValues == {"unset", "empty", "set"}

\* A filter that only looks for undefined variables.
UndefinedEnvVars == {varName \in requiredEnvVars : env[varName] = "unset"}

\* requiredEnvVars.filter(varName => !process.env[varName])
missingEnvVars ==
    {varName \in requiredEnvVars : env[varName] \in {"unset", "empty"}}

BootInit ==
    /\ env \in [requiredEnvVars -> EnvValues]
    /\ proc = "starting"

\* The server process is not followed ("off").
NoBoot ==
    /\ env = [varName \in requiredEnvVars |-> "unset"]
    /\ proc = "off"

\* The module's top-level code: process.exit(1) when a variable is missing
\* (21-26), otherwise on to app.listen (213).
Start ==
    /\ proc = "starting"
    /\ proc' = IF Cardinality(missingEnvVars) > 0 THEN "exited" ELSE "listening"
    /\ UNCHANGED env
    /\ UNCHANGED <<serverVars, nameVars, clientVars>>

Init == ServerInit /\ BootInit /\ NoNames /\ ClientInit

(***************************************************************************)
(* The file system calls used by the server.                               *)
(***************************************************************************)
Exists(path) == path \in DOMAIN fs

\* writeFile / the disk storage's write stream: create or truncate.
Written(path, r) ==
    [p \in DOMAIN fs \cup {path} |-> IF p = path THEN r ELSE fs[p]]

\* unlink of an existing file.
Unlinked(path) == [p \in DOMAIN fs \ {path} |-> fs[p]]

\* The other request whose bytes `path` holds, as an interference record.
Touches(how, r, path) ==
    IF Exists(path) /\ fs[path] # r THEN {<<how, r, fs[path]>>} ELSE {}

(***************************************************************************)
(* cleanupFiles (server.ts 188-210): one try block around three awaited    *)
(* deletions.  Each operator is the code from one await to the next, as a  *)
(* function of the request record.                                         *)
(***************************************************************************)
\* The handler is over.  In the outer catch the 500 response follows the
\* awaited cleanup (179-183); the res.download callback just returns.
CleanupReturned(q) ==
    IF q.mode = "catch"
    THEN [q EXCEPT !.pc = "done", !.response = ErrorResponse(q.thrown),
                   !.sent = @ + 1,
                   !.steps = Append(@, <<"started", "response">>)]
    ELSE [q EXCEPT !.pc = "done"]

\* catch (cleanupError): logged, the rest of the try block is skipped.
CleanupCaught(q) == CleanupReturned([q EXCEPT !.cleanupError = TRUE])

\* if (outputPath) await unlink(outputPath)
AfterUnlinkTemp(q) ==
    IF q.outputPath # <<>>
    THEN [q EXCEPT !.pc = "cl_unlinkOut", !.attempted = @ \cup {"out"}]
    ELSE CleanupReturned(q)

\* if (tempFilePath) await unlink(tempFilePath)
AfterDelete(q) ==
    IF q.tempFilePath # <<>>
    THEN [q EXCEPT !.pc = "cl_unlinkTemp", !.attempted = @ \cup {"temp"}]
    ELSE AfterUnlinkTemp(q)

\* if (uploadedFileId)
ShouldDelete(id) == id # 0

\* cleanupFiles(uploadedFileId, tempFilePath, outputPath) up to its first await.
cleanupFiles(q) ==
    IF ShouldDelete(q.uploadedFileId)
    THEN [q EXCEPT !.pc = "cl_delete", !.attempted = @ \cup {"remote"},
                   !.calls = Append(@, "delete"),
                   !.steps = Append(@, <<"issued", "delete">>)]
    ELSE AfterDelete(q)

\* An outer catch that gives a failed export a second attempt.
OuterCatchRetry(q, step, details) ==
    IF step = "export" /\ Len(q.calls) < 3
    THEN [q EXCEPT !.pc = "exporting", !.calls = Append(@, "export"),
                   !.steps = @ \o << <<"threw", step>>, <<"issued", "export">> >>]
    ELSE cleanupFiles([q EXCEPT !.failed = step, !.thrown = details,
                                !.mode = "catch",
                                !.steps = Append(@, <<"threw", step>>)])

\* The outer catch (176-184): cleanup, then the 500 response.
OuterCatch(q, step, details) ==
    cleanupFiles([q EXCEPT !.failed = step, !.thrown = details, !.mode = "catch",
                           !.steps = Append(@, <<"threw", step>>)])

\* A res.download callback that logs the error and forgets the cleanup.
DownloadCallbackNoCleanup(q, err) ==
    [q EXCEPT !.downloadErr = err, !.mode = "callback", !.pc = "done"]

\* The res.download callback (165-171).
DownloadCallback(q, err) ==
    cleanupFiles([q EXCEPT !.downloadErr = err, !.mode = "callback"])

\* deleteCalls after request r moved from record q to record q2.
DeleteIssued(q, q2) ==
    IF q2.pc = "cl_delete" /\ q.pc # "cl_delete"
    THEN [deleteCalls EXCEPT ![q2.uploadedFileId] = @ + 1]
    ELSE deleteCalls

(***************************************************************************)
(* POST /api/convert (server.ts 86-185).                                   *)
(***************************************************************************)
\* What Date.now() may return to request r: the first request reads the
\* clock as it stands, a later one the same millisecond or the next (only
\* whether two readings are equal matters to the scratch names).
ClockReadings(r) == IF r = 1 THEN {now} ELSE {now, now + 1}

\* upload.single('file') and the handler up to its first await (86-127).
\* t is what Date.now() returns in storage.filename: the millisecond of the
\* previous upload or a later one.  Requests are numbered in the order in
\* which they arrive.
Upload(r, f) ==
    \E t \in ClockReadings(r) :
    LET q == req[r]
        path == storagePath(t, f.originalname)
    IN
    /\ proc = "listening"
    /\ q.pc = "idle"
    /\ UNCHANGED <<nameVars, clientVars, bootVars>>
    /\ \A r0 \in Requests : r0 < r => req[r0].pc # "idle"
    /\ now' = t
    /\ UNCHANGED <<drive, nextId, deleteCalls>>
    /\ IF ~f.present
       THEN \* if (!req.file) return res.status(400).json(...)
            /\ req' = [req EXCEPT ![r] =
                   [q EXCEPT !.pc = "done", !.file = f, !.rejected = "nofile",
                             !.response = NoFileResponse, !.sent = @ + 1,
                             !.steps = Append(@, <<"started", "response">>)]]
            /\ UNCHANGED <<fs, interfered>>
       ELSE IF ~fileFilter(f)
       THEN \* cb(new Error('Only PowerPoint files are allowed!'))
            /\ req' = [req EXCEPT ![r] =
                   [q EXCEPT !.pc = "done", !.file = f, !.rejected = "filter",
                             !.response = DefaultErrorResponse(
                                 "Only PowerPoint files are allowed!"),
                             !.sent = @ + 1,
                             !.steps = Append(@, <<"started", "response">>)]]
            /\ UNCHANGED <<fs, interfered>>
       ELSE IF ExceedsLimit(f.size)
       THEN \* MulterError LIMIT_FILE_SIZE; multer removes the partial file
            /\ req' = [req EXCEPT ![r] =
                   [q EXCEPT !.pc = "done", !.file = f, !.rejected = "limit",
                             !.response = DefaultErrorResponse("File too large"),
                             !.sent = @ + 1,
                             !.steps = Append(@, <<"started", "response">>)]]
            /\ UNCHANGED <<fs, interfered>>
       ELSE \* stored; tempFilePath = req.file.path; drive.files.create(...)
            /\ req' = [req EXCEPT ![r] =
                   [q EXCEPT !.pc = "creating", !.file = f,
                             !.tempFilePath = path,
                             !.calls = Append(@, "create"),
                             !.steps = Append(@, <<"issued", "create">>)]]
            /\ fs' = Written(path, r)
            /\ interfered' = interfered \cup Touches("overwrite", r, path)

\* drive.files.create returned and its id is taken without looking at it.
CreateReturnedUnchecked(q, id) ==
    [q EXCEPT !.pc = "waiting", !.uploadedFileId = id,
              !.steps = Append(@, <<"returned", "create">>)]

\* uploadedFileId = driveResponse.data.id; if (!uploadedFileId) throw ...
\* (129-131); with an id the handler goes on to the 2-second wait (141).
CreateReturned(q, id) ==
    IF id = 0
    THEN OuterCatch([q EXCEPT !.steps = Append(@, <<"returned", "create">>)],
                    "create", UploadErrorMessage(NoIdError))
    ELSE [q EXCEPT !.pc = "waiting", !.uploadedFileId = id,
                   !.steps = Append(@, <<"returned", "create">>)]

\* await drive.files.create(...) settles (123-138).
CreateReturns(r, outcome, e) ==
    LET q == req[r]
        q2 == IF outcome = "error"
              THEN OuterCatch(q, "create", UploadErrorMessage(e))
              ELSE CreateReturned(q, IF outcome = "id" THEN nextId ELSE 0)
    IN
    /\ q.pc = "creating"
    /\ UNCHANGED <<nameVars, clientVars, bootVars>>
    /\ req' = [req EXCEPT ![r] = q2]
    /\ nextId' = IF outcome = "id" THEN nextId + 1 ELSE nextId
    /\ drive' = IF outcome = "id" THEN drive \cup {nextId} ELSE drive
    /\ deleteCalls' = DeleteIssued(q, q2)
    /\ UNCHANGED <<fs, now, interfered>>

\* await new Promise(resolve => setTimeout(resolve, 2000)); then
\* drive.files.export(...) is issued (141-151).
WaitElapsed(r) ==
    LET q == req[r] IN
    /\ q.pc = "waiting"
    /\ UNCHANGED <<nameVars, clientVars, bootVars>>
    /\ req' = [req EXCEPT ![r] =
           [q EXCEPT !.pc = "exporting", !.calls = Append(@, "export"),
                     !.steps = @ \o << <<"elapsed", "wait">>,
                                       <<"issued", "export">> >>]]
    /\ UNCHANGED <<fs, drive, nextId, deleteCalls, now, interfered>>

\* await drive.files.export(...) settles; writeFile is issued (146-160).
ExportReturns(r, outcome, e) ==
    LET q == req[r]
        name == outputFileName(q.file.originalname)
        q2 == IF outcome = "ok"
              THEN [q EXCEPT !.pc = "writing", !.outputFileName = name,
                             !.outputPath = join("uploads", name),
                             !.steps = @ \o << <<"returned", "export">>,
                                               <<"issued", "write">> >>]
              ELSE OuterCatch(q, "export", ConversionErrorMessage(e))
    IN
    /\ q.pc = "exporting"
    /\ UNCHANGED <<nameVars, clientVars, bootVars>>
    /\ req' = [req EXCEPT ![r] = q2]
    /\ deleteCalls' = DeleteIssued(q, q2)
    /\ UNCHANGED <<fs, drive, nextId, now, interfered>>

\* await writeFile(outputPath, pdfBuffer) settles; res.download(...) (160-165).
WriteReturns(r, outcome, e) ==
    LET q == req[r]
        q2 == IF outcome = "ok"
              THEN [q EXCEPT !.pc = "download",
                             !.steps = Append(@, <<"returned", "write">>)]
              ELSE OuterCatch(q, "write", ConversionErrorMessage(e))
    IN
    /\ q.pc = "writing"
    /\ UNCHANGED <<nameVars, clientVars, bootVars>>
    /\ req' = [req EXCEPT ![r] = q2]
    /\ fs' = IF outcome = "ok" THEN Written(q.outputPath, r) ELSE fs
    /\ interfered' = IF outcome = "ok"
                     THEN interfered \cup Touches("overwrite", r, q.outputPath)
                     ELSE interfered
    /\ deleteCalls' = DeleteIssued(q, q2)
    /\ UNCHANGED <<drive, nextId, now>>

\* res.download stats and opens outputPath: the headers go out and the body
\* starts, or, the file being gone, the callback gets the error and nothing
\* is sent.
DownloadStart(r) ==
    LET q == req[r]
        q2 == IF Exists(q.outputPath)
              THEN [q EXCEPT !.pc = "streaming",
                             !.response = FileResponse(q.outputFileName,
                                                       fs[q.outputPath]),
                             !.sent = @ + 1,
                             !.steps = Append(@, <<"started", "response">>)]
              ELSE DownloadCallback(q, "ENOENT")
    IN
    /\ q.pc = "download"
    /\ UNCHANGED <<nameVars, clientVars, bootVars>>
    /\ req' = [req EXCEPT ![r] = q2]
    /\ interfered' = interfered \cup Touches("stream", r, q.outputPath)
    /\ deleteCalls' = DeleteIssued(q, q2)
    /\ UNCHANGED <<fs, drive, nextId, now>>

\* The transfer ends: complete ("none") or the client went away ("aborted").
\* Either way the callback runs (165-171).
DownloadEnd(r, err) ==
    LET q == req[r]
        q2 == DownloadCallback(q, err)
    IN
    /\ q.pc = "streaming"
    /\ UNCHANGED <<nameVars, clientVars, bootVars>>
    /\ req' = [req EXCEPT ![r] = q2]
    /\ deleteCalls' = DeleteIssued(q, q2)
    /\ UNCHANGED <<fs, drive, nextId, now, interfered>>

\* await drive.files.delete(...) settles (192-196).
DeleteReturns(r, outcome) ==
    LET q == req[r] IN
    /\ q.pc = "cl_delete"
    /\ UNCHANGED <<nameVars, clientVars, bootVars>>
    /\ req' = [req EXCEPT ![r] =
           IF outcome = "ok" THEN AfterDelete(q) ELSE CleanupCaught(q)]
    /\ drive' = IF outcome = "ok" THEN drive \ {q.uploadedFileId} ELSE drive
    /\ UNCHANGED <<fs, nextId, deleteCalls, now, interfered>>

\* await unlink(tempFilePath) settles (199-202); ENOENT when it is gone.
UnlinkTempReturns(r) ==
    LET q == req[r] IN
    /\ q.pc = "cl_unlinkTemp"
    /\ UNCHANGED <<nameVars, clientVars, bootVars>>
    /\ req' = [req EXCEPT ![r] =
           IF Exists(q.tempFilePath) THEN AfterUnlinkTemp(q) ELSE CleanupCaught(q)]
    /\ fs' = IF Exists(q.tempFilePath) THEN Unlinked(q.tempFilePath) ELSE fs
    /\ interfered' = interfered \cup Touches("delete", r, q.tempFilePath)
    /\ UNCHANGED <<drive, nextId, deleteCalls, now>>

\* await unlink(outputPath) settles (203-206); ENOENT when it is gone.
UnlinkOutReturns(r) ==
    LET q == req[r] IN
    /\ q.pc = "cl_unlinkOut"
    /\ UNCHANGED <<nameVars, clientVars, bootVars>>
    /\ req' = [req EXCEPT ![r] =
           IF Exists(q.outputPath) THEN CleanupReturned(q) ELSE CleanupCaught(q)]
    /\ fs' = IF Exists(q.outputPath) THEN Unlinked(q.outputPath) ELSE fs
    /\ interfered' = interfered \cup Touches("delete", r, q.outputPath)
    /\ UNCHANGED <<drive, nextId, deleteCalls, now>>

Next ==
    \/ Start
    \/ \E r \in Requests, f \in Uploads : Upload(r, f)
    \/ \E r \in Requests, o \in {"id", "noid", "error"}, e \in Thrown :
           CreateReturns(r, o, e)
    \/ \E r \in Requests : WaitElapsed(r)
    \/ \E r \in Requests, o \in {"ok", "error"}, e \in Thrown :
           ExportReturns(r, o, e)
    \/ \E r \in Requests, o \in {"ok", "error"}, e \in Thrown :
           WriteReturns(r, o, e)
    \/ \E r \in Requests : DownloadStart(r)
    \/ \E r \in Requests, err \in {"none", "aborted"} : DownloadEnd(r, err)
    \/ \E r \in Requests, o \in {"ok", "error"} : DeleteReturns(r, o)
    \/ \E r \in Requests : UnlinkTempReturns(r)
    \/ \E r \in Requests : UnlinkOutReturns(r)

Spec == Init /\ [][Next]_vars


(***************************************************************************)
(* The file name, from the file picker to the download, for one file.      *)
(***************************************************************************)
deck == <<"d", "e", "c", "k">>
Slides == <<"S", "l", "i", "d", "e", "s">>

TailAlphabet == {".", "p", "t", "x", "P", "T"}

\* Every string over TailAlphabet of at most MaxTailLen characters.
Tails == UNION {[1..n -> TailAlphabet] : n \in 0..MaxTailLen}

\* The sizes a picked file has: small, or exactly the form's limit.
PickedSizes == {1, maxFileSize}

PickedFiles ==
    {File(stem \o tail, mime, size) :
        stem \in {deck, Slides}, tail \in Tails,
        mime \in {PPT_MIME, "application/octet-stream"},
        size \in PickedSizes}

NameInit ==
    /\ ServerInit
    /\ NoBoot
    /\ ClientInit
    /\ picked \in PickedFiles
    /\ stage = "pick"
    /\ serverName = <<>>
    /\ clientName = <<>>

\* ConverterComponent.onFileSelected: the selection is kept or cleared.
Select ==
    /\ stage = "pick"
    /\ stage' = IF validateFileType(picked) /\ validateFileSize(picked)
                THEN "selected" ELSE "refused"
    /\ UNCHANGED <<picked, serverName, clientName>>
    /\ UNCHANGED <<serverVars, clientVars, bootVars>>

\* ConversionService.convertToPdf: posted, or an error without a request.
Post ==
    /\ stage = "selected"
    /\ stage' = IF PrePostChecks(picked) THEN "posted" ELSE "refused"
    /\ UNCHANGED <<picked, serverName, clientName>>
    /\ UNCHANGED <<serverVars, clientVars, bootVars>>

\* The server accepts the upload and names the PDF it sends (62-79, 154, 165).
Serve ==
    /\ stage = "posted"
    /\ IF fileFilter(picked) /\ ~ExceedsLimit(picked.size)
       THEN /\ stage' = "served"
            /\ serverName' = outputFileName(picked.originalname)
       ELSE /\ stage' = "refused"
            /\ UNCHANGED serverName
    /\ UNCHANGED <<picked, clientName>>
    /\ UNCHANGED <<serverVars, clientVars, bootVars>>

\* ConversionService.downloadPdf(pdfBlob, this.selectedFile.name).
Download ==
    /\ stage = "served"
    /\ stage' = "downloaded"
    /\ clientName' = downloadName(picked.originalname)
    /\ UNCHANGED <<picked, serverName>>
    /\ UNCHANGED <<serverVars, clientVars, bootVars>>

NameNext ==
    \/ Select
    \/ Post
    \/ Serve
    \/ Download

NameSpec == NameInit /\ [][NameNext]_vars

(***************************************************************************)
(* The Client Form: ConverterComponent (part_000) with ConversionService   *)
(* (part_001 66-144, 215-231) and the template's controls.                 *)
(***************************************************************************)
\* The files the user picks in the file input; NoFile is a change event
\* without a file.
Selections ==
    { File(deck_pptx, PPTX_MIME, 1),
      File(Slides_PPT, PPT_MIME, 1),
      File(notes_txt, PPT_MIME, 1),
      File(Slides_PPT, "application/octet-stream", 1),
      File(notes_txt, "text/plain", 1),
      File(deck_pptx, PPTX_MIME, maxFileSize + 1),
      NoFile }

\* '' and undefined are falsy: a || b
Or(a, b) == IF a # <<>> THEN a ELSE b

\* A string as a text; '' is the empty text.
Text(s) == IF s = "" THEN <<>> ELSE <<s>>

\* The request did not reach the server or its answer did not come back:
\* status 0.
NetworkFailure == [NoResponse EXCEPT !.kind = "network"]

\* What the server answers to a POST that carries f (server.ts 62-79, 130,
\* 137, 165, 174, 180-183).
ServerAnswers(f) ==
    IF ~fileFilter(f)
    THEN {DefaultErrorResponse("Only PowerPoint files are allowed!")}
    ELSE IF ExceedsLimit(f.size)
    THEN {DefaultErrorResponse("File too large")}
    ELSE {FileResponse(outputFileName(f.originalname), 1)}
         \cup {ErrorResponse(UploadErrorMessage(e)) : e \in Thrown \cup {NoIdError}}
         \cup {ErrorResponse(ConversionErrorMessage(e)) : e \in Thrown}

Replies(f) == ServerAnswers(f) \cup {NetworkFailure}

\* The Content-Type header: res.download takes it from the extension of the
\* file it sends, res.json and the default error handler set their own.
ContentType(reply) ==
    CASE reply.kind = "file" ->
           IF EndsWith(LowerStr(reply.filename), DotPdf)
           THEN "application/pdf" ELSE "application/octet-stream"
      [] reply.kind = "json" -> "application/json; charset=utf-8"
      [] reply.kind = "html" -> "text/html; charset=utf-8"
      [] OTHER -> ""

\* HttpClient's error for a reply that is not 2xx: with responseType 'blob'
\* error.error is a Blob when the server answered, a ProgressEvent when it
\* did not.
HttpErrorResponse(reply) ==
    [isBlob |-> reply.kind # "network", body |-> reply,
     message |-> <<"Http failure response for /api/convert">>]

\* throw new Error('Invalid response type from server') in map (91).
InvalidResponseType ==
    [isBlob |-> FALSE, body |-> NoResponse,
     message |-> <<"Invalid response type from server">>]

\* let errorMessage = 'An error occurred during conversion' (120)
HandlerDefault == <<"An error occurred during conversion">>

\* handleError (119-144) up to its return: the local errorMessage, and the
\* FileReader started on the Blob.  HttpClient does not deliver an ErrorEvent,
\* so the middle branch (134-136) is not taken.
handleError(error) ==
    IF error.isBlob
    THEN [errorMessage |-> HandlerDefault, body |-> error.body, reading |-> TRUE]
    ELSE [errorMessage |->
              Or(error.body.details, Or(Text(error.body.error), error.message)),
          body |-> error.body, reading |-> FALSE]

\* reader.onload (125-132): JSON.parse of the body; an HTML body does not
\* parse and leaves errorMessage as it is.
ReaderLoaded(h) ==
    [h EXCEPT !.reading = FALSE,
              !.errorMessage =
                  IF h.body.kind = "json"
                  THEN Or(h.body.details, Or(Text(h.body.error), @))
                  ELSE @]

\* A timer callback that adds 10 whatever the progress is.
ProgressTickUncapped(fm) ==
    [fm EXCEPT !.uploadProgress = IF @ < 100 THEN @ + 10 ELSE @]

\* The setInterval callback (66-77).
ProgressTick(fm) ==
    IF fm.uploadProgress < 90
    THEN LET p == fm.uploadProgress + 10 IN
         [fm EXCEPT !.uploadProgress = p,
                    !.conversionStatus =
                        IF p >= 30 /\ p < 60 THEN "Processing PowerPoint file..."
                        ELSE IF p >= 60 /\ p < 90 THEN "Converting to PDF..."
                        ELSE @]
    ELSE fm

\* The next callback (81-87), without the timer calls.
NextCallback(fm) ==
    [fm EXCEPT !.uploadProgress = 100, !.conversionStatus = "Finalizing..."]

\* An error callback that shows the message and leaves the rest as it is.
ErrorCallbackStillLoading(fm, message) ==
    [fm EXCEPT !.errorMessage = message]

\* The error callback (99-108), without the timer call.
ErrorCallback(fm, message) ==
    [fm EXCEPT !.isLoading = FALSE, !.conversionStatus = "",
               !.uploadProgress = 0,
               !.errorMessage =
                   Or(message,
                      <<"An error occurred during conversion. Please try again.">>)]

\* onFileSelected showing the message and keeping the selection it had.
RefusedKeepingSelection(fm, message) == [fm EXCEPT !.errorMessage = message]

\* onFileSelected on a file that fails a check (35-37, 42-44).
Refused(fm, message) ==
    [fm EXCEPT !.errorMessage = message, !.selectedFile = NoFile]

\* convertToPdf from line 59 to the setInterval call.
Started(fm) ==
    [fm EXCEPT !.isLoading = TRUE, !.errorMessage = <<>>,
               !.successMessage = "",
               !.conversionStatus = "Uploading file to server...",
               !.uploadProgress = 0]

Event(op, f, reply) == [op |-> op, file |-> f, reply |-> reply]

\* seq without its i-th element.
Without(seq, i) == SubSeq(seq, 1, i - 1) \o SubSeq(seq, i + 1, Len(seq))

\* The (change) event of the file input, which the template never disables
\* (converter.component.html 7-13): onFileSelected (28-51).
onFileSelected(f) ==
    /\ form' =
         IF ~f.present THEN form
         ELSE IF ~validateFileType(f)
         THEN Refused(form, <<"Please select a PowerPoint file (.ppt or .pptx)">>)
         ELSE IF ~validateFileSize(f)
         THEN Refused(form, <<"File size exceeds the maximum limit of 10MB">>)
         ELSE [form EXCEPT !.selectedFile = f, !.errorMessage = <<>>,
                           !.successMessage = ""]
    /\ lastEvent' = Event("select", f, NoResponse)
    /\ UNCHANGED <<intervals, posts, timeouts, handler, downloaded>>
    /\ UNCHANGED <<serverVars, nameVars, bootVars>>

\* A button that is only disabled while no file is selected.
DisabledWithoutSelection == form.selectedFile = NoFile

\* [disabled]="!selectedFile || isLoading" (converter.component.html 67)
ButtonDisabled == form.selectedFile = NoFile \/ form.isLoading

\* A click on the Convert button: convertToPdf (53-110) up to the end of the
\* subscribe call.  The service's own checks (part_001 68-75) fail inside
\* subscribe, so the error callback runs before convertToPdf returns, after
\* the timer was set.
convertToPdf ==
    LET f == form.selectedFile IN
    /\ ~ButtonDisabled
    /\ lastEvent' = Event("convert", f, NoResponse)
    /\ IF f = NoFile
       THEN /\ form' = [form EXCEPT !.errorMessage = <<"Please select a file first">>]
            /\ UNCHANGED <<intervals, posts>>
       ELSE IF ~isValidPowerPointFile(f)
       THEN /\ form' = ErrorCallback(Started(form),
                           <<"Invalid file type. Please upload a PowerPoint file (.ppt or .pptx)">>)
            /\ UNCHANGED <<intervals, posts>>
       ELSE IF f.size > 50 * 1024 * 1024
       THEN /\ form' = ErrorCallback(Started(form), <<"File size exceeds 50MB limit">>)
            /\ UNCHANGED <<intervals, posts>>
       ELSE /\ form' = Started(form)
            /\ intervals' = intervals + 1
            /\ posts' = Append(posts, f)
    /\ UNCHANGED <<timeouts, handler, downloaded>>
    /\ UNCHANGED <<serverVars, nameVars, bootVars>>

\* 500 ms went by with a progress timer set.
Tick ==
    /\ intervals > 0
    /\ form' = ProgressTick(form)
    /\ lastEvent' = Event("tick", NoFile, NoResponse)
    /\ UNCHANGED <<intervals, posts, timeouts, handler, downloaded>>
    /\ UNCHANGED <<serverVars, nameVars, bootVars>>

\* A POST in flight, the i-th, is over: map (86-93), catchError(handleError) and
\* the subscriber's next (81-98) or error (99-108) callback.
HttpResponse ==
    \E i \in 1..Len(posts) : \E reply \in Replies(posts[i]) :
    LET f == posts[i]
        error == IF reply.status = 200 THEN InvalidResponseType
                 ELSE HttpErrorResponse(reply)
        h == handleError(error)
    IN
    /\ posts' = Without(posts, i)
    /\ intervals' = intervals - 1
    /\ IF reply.status = 200 /\ ContentType(reply) = "application/pdf"
       THEN /\ form' = NextCallback(form)
            /\ timeouts' = Append(timeouts, f)
            /\ lastEvent' = Event("next", f, reply)
            /\ UNCHANGED handler
       ELSE \* throwError(() => new Error(errorMessage)) is subscribed to at
            \* once: the Error takes errorMessage as handleError leaves it.
            /\ form' = ErrorCallback(form, h.errorMessage)
            /\ handler' = h
            /\ lastEvent' = Event("error", f, reply)
            /\ UNCHANGED timeouts
    /\ UNCHANGED downloaded
    /\ UNCHANGED <<serverVars, nameVars, bootVars>>

\* The load event of the FileReader started by handleError.
ReaderOnload ==
    /\ handler.reading
    /\ handler' = ReaderLoaded(handler)
    /\ lastEvent' = Event("loaded", lastEvent.file, handler.body)
    /\ UNCHANGED <<form, intervals, posts, timeouts, downloaded>>
    /\ UNCHANGED <<serverVars, nameVars, bootVars>>

\* The finalizing timeout (90-97): this.selectedFile is read now;
\* this.selectedFile!.name on null is a TypeError and downloadPdf is not
\* called.
FinalizingTimeout ==
    LET f == Head(timeouts) IN
    /\ timeouts # <<>>
    /\ timeouts' = Tail(timeouts)
    /\ form' = [form EXCEPT !.isLoading = FALSE, !.conversionStatus = "",
                            !.successMessage =
                                "Conversion successful! Downloading PDF..."]
    /\ downloaded' =
         IF form.selectedFile = NoFile
         THEN [by |-> "TypeError", name |-> <<>>, of |-> f]
         ELSE [by |-> "link",
               name |-> downloadName(form.selectedFile.originalname),
               of |-> f]
    /\ lastEvent' = Event("finalize", f, NoResponse)
    /\ UNCHANGED <<intervals, posts, handler>>
    /\ UNCHANGED <<serverVars, nameVars, bootVars>>

FormInit == ServerInit /\ NoBoot /\ NoNames /\ ClientInit

FormNext ==
    \/ \E f \in Selections : onFileSelected(f)
    \/ convertToPdf
    \/ Tick
    \/ HttpResponse
    \/ ReaderOnload
    \/ FinalizingTimeout

FormSpec == FormInit /\ [][FormNext]_vars

\* The browser runs the callback of a timeout that was set: the finalizing
\* timeout fires.  Nothing is assumed about the server answering.
FormLiveSpec == FormSpec /\ WF_vars(FinalizingTimeout)

(***************************************************************************)
(* Properties.                                                             *)
(***************************************************************************)
Contains(seq, x) == \E i \in 1..Len(seq) : seq[i] = x

Count(seq, x) == Cardinality({i \in 1..Len(seq) : seq[i] = x})

Done(q) == q.pc = "done"

\* The PDF was sent whole: res.download answered 200 and reported no error.
PdfSent(q) == Done(q) /\ q.response.status = 200 /\ q.downloadErr = "none"

\* The artifacts of the handler that are non-null.
Artifacts(q) ==
    (IF q.uploadedFileId # 0 THEN {"remote"} ELSE {})
    \cup (IF q.tempFilePath # <<>> THEN {"temp"} ELSE {})
    \cup (IF q.outputPath # <<>> THEN {"out"} ELSE {})

\* C1: every remote id returned by create gets exactly one delete call,
\* issued by the cleanup of the request that created it: none before the
\* cleanup starts, one from then on, whether the PDF was sent or export threw;
\* and a request without a remote id issues no delete call.
C1_ExactlyOneDelete ==
    /\ \A r \in Requests :
         LET q == req[r] IN
         IF q.uploadedFileId = 0
         THEN Count(q.calls, "delete") = 0
         ELSE /\ deleteCalls[q.uploadedFileId] = Count(q.calls, "delete")
              /\ deleteCalls[q.uploadedFileId] = IF q.mode = "none" THEN 0 ELSE 1
              /\ Done(q) => deleteCalls[q.uploadedFileId] = 1
    /\ \A i \in Requests : i >= nextId => deleteCalls[i] = 0

\* One request sent its PDF, the other saw export throw; both are over and
\* each remote id got its delete call.
C1_Witness ==
    \E r1, r2 \in Requests :
        /\ PdfSent(req[r1]) /\ deleteCalls[req[r1].uploadedFileId] = 1
        /\ Done(req[r2]) /\ req[r2].failed = "export"
        /\ deleteCalls[req[r2].uploadedFileId] = 1

\* C2: once a request whose PDF was sent is over, neither its scratch upload
\* nor its output file is on disk.
C2_FilesAbsentAfterSuccess ==
    \A r \in Requests :
        PdfSent(req[r]) =>
            \A p \in {req[r].tempFilePath, req[r].outputPath} :
                ~(Exists(p) /\ fs[p] = r)

\* C3: no request overwrites, streams back or deletes a local file of another
\* request when the two original file names differ and the two scratch upload
\* names differ.
C3_NoInterference ==
    \A e \in interfered :
        ~(/\ req[e[2]].file.originalname # req[e[3]].file.originalname
          /\ req[e[2]].tempFilePath # req[e[3]].tempFilePath)

\* The claim's allow-list: the two PowerPoint MIME types, the extensions .ppt
\* and .pptx (in any case).
OutsideAllowList(f) ==
    /\ f.present
    /\ f.mimetype \notin {PPT_MIME, PPTX_MIME}
    /\ ~EndsWith(LowerStr(f.originalname), DotPpt)
    /\ ~EndsWith(LowerStr(f.originalname), DotPptx)

\* C4: an upload whose MIME type and extension are both outside the
\* allow-list is answered 400 and no remote call is made for it.
C4_BadTypeRejected400 ==
    \A r \in Requests :
        OutsideAllowList(req[r].file) =>
            /\ req[r].response.status = 400
            /\ req[r].calls = <<>>

\* C5: an upload of more than 50 MiB is rejected (an error status, no PDF) as
\* soon as it is received, and no remote call is ever made for it.
C5_OversizeRejectedBeforeRemote ==
    \A r \in Requests :
        LET q == req[r] IN
        (q.file.present /\ q.file.size > 50 * 1024 * 1024) =>
            /\ Done(q)
            /\ q.response.status >= 400
            /\ q.response.kind # "file"
            /\ q.calls = <<>>
            /\ q.uploadedFileId = 0

\* A PowerPoint file one byte over the ceiling was received and rejected.
C5_Witness ==
    \E r \in Requests :
        /\ req[r].file.present
        /\ fileFilter(req[r].file)
        /\ req[r].file.size = 50 * 1024 * 1024 + 1
        /\ Done(req[r])
        /\ req[r].response.status = 500

\* C6: when export throws after create returned an id, the delete call for
\* that id is issued, and the response is 500 with an error text holding the
\* phrase 'Failed to convert to PDF'.
C6_ExportFailure ==
    \A r \in Requests :
        LET q == req[r] IN
        q.failed = "export" =>
            /\ q.uploadedFileId # 0
            /\ Contains(q.calls, "delete")
            /\ deleteCalls[q.uploadedFileId] >= 1
            /\ Done(q) =>
                 /\ q.response.status = 500
                 /\ q.response.kind = "json"
                 /\ Contains(q.response.details, "Failed to convert to PDF")
                 /\ q.sent = 1

\* A request whose export threw is over and answered 500.
C6_Witness ==
    \E r \in Requests :
        /\ req[r].failed = "export"
        /\ Done(req[r])
        /\ req[r].response.status = 500
        /\ "remote" \in req[r].attempted

\* C7: a request in which create, export or the write of the output file
\* threw is answered 500 with a JSON body holding the generic message and the
\* underlying error text behind the prefix of the failed step, and every
\* artifact that exists then (remote id, scratch upload, output path) gets a
\* delete attempt.
C7_FailurePolicy ==
    \A r \in Requests :
        LET q == req[r] IN
        (q.failed # "none" /\ Done(q)) =>
            /\ q.response.status = 500
            /\ q.response.kind = "json"
            /\ q.response.error = "Error converting file to PDF"
            /\ Len(q.response.details) = 3
            /\ q.response.details[1] =
                 (IF q.failed = "create" THEN "Failed to upload to Google Drive"
                  ELSE "Failed to convert to PDF")
            /\ Artifacts(q) \subseteq q.attempted

\* C8: when cleanup is over, each non-null artifact got its delete attempt,
\* whatever became of the other deletions; a cleanup failure is not in the
\* response (the catch path answers with the error of the failed step, the
\* download path with the file).
C8_IndependentDeletions ==
    \A r \in Requests :
        LET q == req[r] IN
        (q.mode # "none" /\ Done(q)) =>
            /\ Artifacts(q) \subseteq q.attempted
            /\ q.mode = "catch" => q.response = ErrorResponse(q.thrown)
            /\ q.mode = "callback" => q.response.kind \in {"file", "none"}

\* C10: when the client goes away during the download, the callback's cleanup
\* gives the remote resource, the scratch upload and the output file a delete
\* attempt each.
C10_DisconnectStillCleans ==
    \A r \in Requests :
        (req[r].downloadErr = "aborted" /\ Done(req[r])) =>
            {"remote", "temp", "out"} \subseteq req[r].attempted

deck_pdf == deck \o DotPdf
Slides_pdf == Slides \o DotPdf

\* The name the claim asks for: a trailing .ppt or .pptx, in any case,
\* replaced by .pdf; any other name as it is.
ExpectedPdfName(s) ==
    IF EndsWith(LowerStr(s), DotPpt) THEN SubSeq(s, 1, Len(s) - 4) \o DotPdf
    ELSE IF EndsWith(LowerStr(s), DotPptx) THEN SubSeq(s, 1, Len(s) - 5) \o DotPdf
    ELSE s

C11_NoFileRejected ==
    \A r \in Requests :
        LET q == req[r] IN
        (q.pc # "idle" /\ ~q.file.present) =>
            /\ Done(q)
            /\ q.response.status = 400
            /\ q.response.kind = "json"
            /\ q.response.error = "No file uploaded"
            /\ q.sent = 1
            /\ q.calls = <<>>
            /\ q.attempted = {}
            /\ q.uploadedFileId = 0

\* A request without a file was received and answered, while the other
\* request went on to its remote calls.
C11_Witness ==
    \E r1, r2 \in Requests :
        /\ req[r1].pc = "done"
        /\ ~req[r1].file.present
        /\ req[r1].response = NoFileResponse
        /\ Contains(req[r2].calls, "export")

\* C15: when one of the four required credential variables is absent at
\* startup (not defined, or defined as the empty string), the first thing the
\* process does is exit: it is never listening, no request is handled and no
\* remote call is issued; a process that listens, or a request that was
\* handled, has all four variables set.
C15_ExitsWithoutCredentials ==
    LET allPresent == \A varName \in requiredEnvVars : env[varName] = "set"
        handled == \E r \in Requests : req[r] # InitialRequest
    IN
    /\ ~allPresent =>
         /\ proc \in {"starting", "exited"}
         /\ ~handled
         /\ drive = {} /\ nextId = 1
         /\ \A i \in Requests : deleteCalls[i] = 0
    /\ (proc = "listening" \/ handled) => allPresent
    /\ handled => proc = "listening"

\* Only the refresh token is absent, and the process has exited.
C15_Witness ==
    /\ proc = "exited"
    /\ env["GOOGLE_REFRESH_TOKEN"] = "unset"
    /\ \A varName \in requiredEnvVars \ {"GOOGLE_REFRESH_TOKEN"} :
           env[varName] = "set"
    /\ \A r \in Requests : req[r] = InitialRequest

\* The text the server or the network supplied with a failure: the details
\* of the JSON error body, or its error text when it has no details; for a
\* request that got no answer, the message of the HTTP client's error.
SuppliedMessage(reply) ==
    IF reply.kind = "json"
    THEN Or(reply.details, Text(reply.error))
    ELSE HttpErrorResponse(reply).message

\* C12: when the error callback has run for a conversion that the server
\* answered with a JSON error body, or that got no answer, the form's
\* errorMessage is the text the server or the network supplied.
C12_ServerMessageShown ==
    (lastEvent.op = "error" /\ lastEvent.reply.kind \in {"json", "network"}) =>
        form.errorMessage = SuppliedMessage(lastEvent.reply)

\* While a request awaits its response the progress is a multiple of 10 up
\* to 90, and a progress timer is set only while a request is in flight.
ProgressWhileWaiting ==
    /\ Len(posts) > 0 => form.uploadProgress \in {10 * k : k \in 0..9}
    /\ intervals = Len(posts)
    /\ form.uploadProgress \in {10 * k : k \in 0..10}

\* A step that changes the progress is a timer tick that adds 10 while the
\* request is in flight, the arrival of the PDF (100), or the start or the
\* failure of a conversion (0).
ProgressStep ==
    form'.uploadProgress # form.uploadProgress =>
        \/ /\ lastEvent'.op = "tick"
           /\ Len(posts) > 0
           /\ form'.uploadProgress = form.uploadProgress + 10
           /\ form'.uploadProgress <= 90
        \/ /\ lastEvent'.op = "next"
           /\ lastEvent'.reply.status = 200
           /\ form'.uploadProgress = 100
        \/ /\ lastEvent'.op \in {"convert", "error"}
           /\ form'.uploadProgress = 0

\* C13: while a conversion request awaits its response the simulated
\* uploadProgress only moves in steps of 10 made by the progress timer and
\* never goes above 90; it becomes 100 only when the PDF arrives; and once
\* the response or the error has arrived no timer is left to change it.
C13_ProgressCapped == []ProgressWhileWaiting /\ [][ProgressStep]_vars

\* The timer fired with the progress at 90 and the request still in flight.
C13_Witness ==
    /\ Len(posts) = 1
    /\ intervals = 1
    /\ form.uploadProgress = 90
    /\ form.conversionStatus = "Converting to PDF..."
    /\ lastEvent.op = "tick"

\* C14: right after the selection of a file that fails the local type check
\* or the local 10 MiB size check, the form shows the message of the failed
\* check and selectedFile is null; the selection is never such a file, so
\* every file posted by convertToPdf passed both checks.
C14_InvalidSelectionCleared ==
    LET f == lastEvent.file
        passes(g) == validateFileType(g) /\ g.size <= 10 * 1024 * 1024
    IN
    /\ (lastEvent.op = "select" /\ f.present /\ ~passes(f)) =>
         /\ form.selectedFile = NoFile
         /\ form.errorMessage =
              (IF ~validateFileType(f)
               THEN <<"Please select a PowerPoint file (.ppt or .pptx)">>
               ELSE <<"File size exceeds the maximum limit of 10MB">>)
    /\ form.selectedFile # NoFile => passes(form.selectedFile)
    /\ \A i \in 1..Len(posts) : passes(posts[i])

\* After a conversion that ended with a download, the user picked a file
\* over 10 MiB: the selection is gone and the size message is shown.
C14_Witness ==
    /\ downloaded.by = "link"
    /\ lastEvent.op = "select"
    /\ lastEvent.file.size > maxFileSize
    /\ form.selectedFile = NoFile
    /\ form.errorMessage = <<"File size exceeds the maximum limit of 10MB">>

\* C20: when the finalizing timeout triggers the download, selectedFile is
\* not null and the download is named after the file that was submitted in
\* the request the PDF answers, whatever the user selected in the meantime.
C20_DownloadNamedAfterSubmitted ==
    lastEvent.op = "finalize" =>
        /\ form.selectedFile # NoFile
        /\ downloaded.by = "link"
        /\ downloaded.name = downloadName(downloaded.of.originalname)

\* Every occurrence of b in seq has an a before it.
Precedes(seq, a, b) ==
    \A j \in 1..Len(seq) : seq[j] = b => \E i \in 1..(j - 1) : seq[i] = a

\* C16: within one request, export is issued only after create returned a
\* non-empty id and the wait elapsed; the output file is written only after
\* export returned; the PDF response starts only after the write completed;
\* and no delete is issued before export returned or threw.
C16_StrictSequence ==
    \A r \in Requests :
        LET q == req[r]
            st == q.steps
        IN
        /\ Precedes(st, <<"returned", "create">>, <<"elapsed", "wait">>)
        /\ Precedes(st, <<"elapsed", "wait">>, <<"issued", "export">>)
        /\ Contains(st, <<"issued", "export">>) => q.uploadedFileId # 0
        /\ Precedes(st, <<"returned", "export">>, <<"issued", "write">>)
        /\ q.response.kind = "file" =>
             Precedes(st, <<"returned", "write">>, <<"started", "response">>)
        /\ \A j \in 1..Len(st) :
             st[j] = <<"issued", "delete">> =>
                 \E i \in 1..(j - 1) :
                     st[i] \in {<<"returned", "export">>, <<"threw", "export">>}

\* A request went through every step, in order, and its PDF was sent.
C16_Witness ==
    \E r \in Requests :
        /\ PdfSent(req[r])
        /\ SubSeq(req[r].steps, 1, 9) =
             << <<"issued", "create">>, <<"returned", "create">>,
                <<"elapsed", "wait">>, <<"issued", "export">>,
                <<"returned", "export">>, <<"issued", "write">>,
                <<"returned", "write">>, <<"started", "response">>,
                <<"issued", "delete">> >>

\* C17: within one request create is issued at most once, export at most
\* once and the wait is taken at most once; once create or export threw,
\* nothing is attempted again (only the cleanup follows) and the request ends
\* answered 500, once.
C17_NoRetry ==
    \A r \in Requests :
        LET q == req[r]
            st == q.steps
        IN
        /\ Count(q.calls, "create") <= 1
        /\ Count(q.calls, "export") <= 1
        /\ Count(st, <<"elapsed", "wait">>) <= 1
        /\ \A i, j \in 1..Len(st) :
             (i < j /\ st[i] \in {<<"threw", "create">>, <<"threw", "export">>}) =>
                 st[j] \in {<<"issued", "delete">>, <<"started", "response">>}
        /\ q.failed \in {"create", "export"} =>
             /\ q.pc \in {"cl_delete", "cl_unlinkTemp", "cl_unlinkOut", "done"}
             /\ Done(q) => (q.response.status = 500 /\ q.sent = 1)

\* In one request create threw, in the other export threw; both are over,
\* answered 500, each call having been made once at most.
C17_Witness ==
    \E r1, r2 \in Requests :
        /\ req[r1].failed = "create" /\ req[r1].calls = <<"create">>
        /\ req[r2].failed = "export"
        /\ req[r2].calls = <<"create", "export", "delete">>
        /\ \A r \in {r1, r2} : Done(req[r]) /\ req[r].response.status = 500

\* The last "." of a name, 0 when it has none.
LastDot(s) ==
    LET dots == {i \in 1..Len(s) : s[i] = "."} IN
    IF dots = {} THEN 0 ELSE CHOOSE i \in dots : \A j \in dots : j <= i

\* A name with its extension (from the last "." on) replaced by .pdf.
WithPdfExtension(s) ==
    (IF LastDot(s) = 0 THEN s ELSE SubSeq(s, 1, LastDot(s) - 1)) \o DotPdf

\* C18: for every accepted upload that got as far as the output file, the
\* output file name is the original name with its extension replaced by
\* .pdf and the output path is that name in the uploads directory; the name
\* of a PDF response ends in .pdf and differs from the original name.
C18_OutputNameIsPdf ==
    \A r \in Requests :
        LET q == req[r] IN
        /\ q.outputPath # <<>> =>
             /\ q.outputFileName = WithPdfExtension(q.file.originalname)
             /\ q.outputPath = join("uploads", q.outputFileName)
             /\ q.outputPath # join("uploads", q.file.originalname)
        /\ q.response.kind = "file" =>
             /\ q.response.filename = q.outputFileName
             /\ EndsWith(q.response.filename, DotPdf)
             /\ q.response.filename # q.file.originalname

\* C19: a request that reached the handler is never sent two responses, and
\* when all its work is over (the res.download callback and the cleanup
\* included) it has been sent one.
C19_ExactlyOneResponse ==
    \A r \in Requests :
        LET q == req[r] IN
        /\ q.sent <= 1
        /\ Count(q.steps, <<"started", "response">>) = q.sent
        /\ Done(q) => q.sent = 1

\* C21: a file that passes the form's selection checks (validateFileType and
\* validateFileSize) passes the service's checks before the POST and the
\* server's type filter and size ceiling as well: once selected it is never
\* refused on its way to the download.
C21_ClientAcceptedPassesDownstream ==
    (validateFileType(picked) /\ validateFileSize(picked)) =>
        /\ isValidPowerPointFile(picked)
        /\ ~(picked.size > 50 * 1024 * 1024)
        /\ fileFilter(picked)
        /\ ~ExceedsLimit(picked.size)
        /\ stage # "refused"

\* A file of exactly 10 MiB, accepted through its MIME type alone (its name
\* has no PowerPoint extension), was served and downloaded.
C21_Witness ==
    /\ stage = "downloaded"
    /\ picked.mimetype = PPT_MIME
    /\ picked.size = 10 * 1024 * 1024
    /\ ~EndsWith(LowerStr(picked.originalname), DotPpt)
    /\ ~EndsWith(LowerStr(picked.originalname), DotPptx)

\* At most one request is in flight and at most one progress timer is set;
\* isLoading is true exactly while a request is in flight or its finalizing
\* delay is running.
OneConversionAtATime ==
    /\ Len(posts) <= 1
    /\ intervals <= 1
    /\ Len(posts) + Len(timeouts) <= 1
    /\ form.isLoading <=> (Len(posts) + Len(timeouts) = 1)

\* A request is only posted while isLoading is false and nothing is in
\* flight, and isLoading only goes back to false when the error arrives or
\* the finalizing delay has elapsed.
LoadingStep ==
    /\ Len(posts') > Len(posts) =>
         (~form.isLoading /\ posts = <<>> /\ timeouts = <<>> /\ intervals = 0)
    /\ (form.isLoading /\ ~form'.isLoading) =>
         lastEvent'.op \in {"error", "finalize"}

\* C22: in the form at most one conversion request is in flight and at most
\* one progress timer is set at any time: convertToPdf cannot be triggered
\* while isLoading is true, and isLoading stays true from the start of
\* convertToPdf until the error arrives or the finalizing delay has elapsed.
C22_OneRequestOneTimer == []OneConversionAtATime /\ [][LoadingStep]_vars

\* During the finalizing delay the user has selected another valid file:
\* isLoading is still true and the button is disabled.
C22_Witness ==
    /\ Len(timeouts) = 1
    /\ posts = <<>>
    /\ form.isLoading
    /\ lastEvent.op = "select"
    /\ form.selectedFile # NoFile
    /\ form.selectedFile # timeouts[1]
    /\ ButtonDisabled

\* Once the error has arrived the form is out of the loading state with the
\* status emptied and the progress at 0; once the response or the error has
\* arrived no progress timer is left; and the form is never loading with
\* neither a request in flight nor a finalizing timeout pending.
SettledAfterAnswer ==
    /\ lastEvent.op = "error" =>
         /\ ~form.isLoading
         /\ form.conversionStatus = ""
         /\ form.uploadProgress = 0
    /\ lastEvent.op \in {"next", "error"} => intervals = 0
    /\ posts = <<>> => intervals = 0
    /\ form.isLoading => (posts # <<>> \/ timeouts # <<>>)

\* C23: once the conversion has emitted the PDF or an error, the progress
\* timer is cleared and isLoading returns to false with conversionStatus
\* emptied (at once on an error, with uploadProgress at 0; after the
\* finalizing delay on a PDF): the form does not stay in the loading state.
C23_NeverStuckLoading ==
    /\ []SettledAfterAnswer
    /\ (timeouts # <<>>) ~> (~form.isLoading /\ form.conversionStatus = "")

\* The PDF arrived after the user had cleared the selection with an invalid
\* pick: the finalizing timeout ended in a TypeError, and the form is out of
\* the loading state all the same.
C23_Witness ==
    /\ lastEvent.op = "finalize"
    /\ downloaded.by = "TypeError"
    /\ ~form.isLoading
    /\ form.conversionStatus = ""
    /\ intervals = 0

====
